---- MODULE Spec2Model ----
(***************************************************************************)
(* Model of hyper's lower-level client connection API                      *)
(* (src/client/conn.rs): the Handshake that builds a dispatch channel, a   *)
(* SendRequest handle and a Connection driver; the request submission      *)
(* operations and their response futures; the driver's poll and its        *)
(* decomposition into Parts; the Builder; and the WhenReady future.        *)
(*                                                                         *)
(* The dispatch channel (client/dispatch.rs) and the protocol drivers      *)
(* (proto::h1::Dispatcher, proto::h2::Client) are outside conn.rs.  They   *)
(* are modelled from the specification's sections 3, 4.3, 4.5, 5 and 7.    *)
(***************************************************************************)
EXTENDS Naturals, Sequences, FiniteSets

\* Number of requests the callers submit (accepted or rejected).
MaxReq == 2
\* Number of sender handles that may be alive at once (the original handle
\* and its clones).
MaxHandles == 2

\* Number of bytes the peer sends after the HTTP exchange (the tail that
\* belongs to an upgraded protocol).
MaxTail == 2

Reqs    == 1..MaxReq
Handles == 1..MaxHandles
None    == 0

\* The byte streams a handshake may be given, and the executors a builder
\* may be configured with.
Transports == {"ioA", "ioB"}
Execs      == {"Default", "Custom"}

VARIABLES
    builder,       \* Builder: [exec, h1_writev, h1_title_case_headers, http2]
    handshake,     \* HandshakeInner: [builder, io], and whether it was made / polled
    conn,          \* Connection: [variant, state, inflight, shutdown], the
                   \* transport it owns and the settings it was built with
    wire,          \* bytes the peer wrote after its HTTP messages, not yet read
    read_buf,      \* the H1 driver's read-ahead buffer: bytes read, not consumed
    parts,         \* the Parts returned by Connection::into_parts, if any
    when_ready,    \* WhenReady, if made: tx (the handle held, None once taken), and of
                   \* its polls: the last result (out), the handle it returned
                   \* (got), how many were not ready (n, counted up to 2)
    panic,         \* the messages of the panics raised so far
    handles,       \* how many sender handles are alive (SendRequest, or
                   \* Http2SendRequest and its clones), numbered 1..handles
    unbound,       \* TRUE once the handle was converted by into_http2
    buffered_once, \* dispatch::Sender: one message is allowed without a want
    taker,         \* receiver side of the channel: "idle", "want" or "closed"
    queue,         \* envelopes sent and not yet taken by the driver
    sent,          \* per request: the operation that submitted it and its handle
    promise,       \* per request: the one-shot response slot of the envelope
    fut,           \* per request: the response future returned to the caller
    hist           \* history: the requests the driver received, whether a fault
                   \* occurred, the transport given to Builder::handshake

vars == <<builder, handshake, conn, wire, read_buf, parts, when_ready, panic,
          handles, unbound, buffered_once, taker, queue, sent, promise, fut, hist>>

\* The state outside the exchange of requests and responses: the operations
\* on requests leave it alone.
life == <<builder, wire, read_buf, parts, when_ready, panic>>

----------------------------------------------------------------------------
(* Values *)

\* A Result<Response, (Error, Option<Request>)> as carried by a response slot
\* or returned by a future.  resp and req are None (0) when absent.
OkRes(resp) == [ok |-> TRUE, resp |-> resp, err |-> "none", cause |-> "none", req |-> None]
ErrRes(err, cause, req) == [ok |-> FALSE, resp |-> None, err |-> err, cause |-> cause, req |-> req]
NoRes == [ok |-> FALSE, resp |-> None, err |-> "none", cause |-> "none", req |-> None]

\* ::Error::new_canceled(Some("connection was not ready"))
NotReadyMsg == "connection was not ready"
new_canceled_not_ready == ErrRes("canceled", NotReadyMsg, None)

\* The response the peer sends for request r.
ResponseOf(r) == r

NoPromise == [st |-> "none", val |-> NoRes, n |-> 0]
NoFut     == [kind |-> "none", st |-> "none", out |-> NoRes]
NoSent    == [api |-> "none", h |-> None]

RECURSIVE SeqToSet(_)
SeqToSet(s) == IF s = <<>> THEN {} ELSE {Head(s)} \cup SeqToSet(Tail(s))

Min(a, b) == IF a < b THEN a ELSE b

\* The next request to be submitted: requests are numbered in submission order.
NextReq == IF \E r \in Reqs : sent[r].api = "none"
           THEN CHOOSE r \in Reqs : sent[r].api = "none" /\ \A q \in Reqs : q < r => sent[q].api # "none"
           ELSE None

----------------------------------------------------------------------------
(* Initial state: a Handshake made by Builder::handshake(io), not yet polled *)

Builder_new == [exec |-> "Default", h1_writev |-> TRUE,
                h1_title_case_headers |-> FALSE, http2 |-> FALSE]

NoConn      == [variant |-> "none", state |-> "none", inflight |-> {}, shutdown |-> FALSE,
                io |-> "None", flatten |-> FALSE, title_case |-> FALSE, exec |-> "none"]
NoHandshake == [builder |-> Builder_new, io |-> "None", state |-> "none"]
NoParts     == [io |-> "None", read_buf |-> <<>>]
NoWhenReady == [made |-> FALSE, tx |-> None, out |-> "none", got |-> None, n |-> 0]

\* Nothing exists but the builder b and, if made is not NoHandshake, the
\* Handshake b.handshake(io) returned.
Start(b, made) ==
    /\ builder = b
    /\ handshake = made
    /\ conn = NoConn
    /\ wire = <<>>
    /\ read_buf = <<>>
    /\ parts = NoParts
    /\ when_ready = NoWhenReady
    /\ panic = {}
    /\ handles = 0
    /\ unbound = FALSE
    /\ buffered_once = FALSE
    /\ taker = "idle"
    /\ queue = <<>>
    /\ sent = [r \in Reqs |-> NoSent]
    /\ promise = [r \in Reqs |-> NoPromise]
    /\ fut = [r \in Reqs |-> NoFut]
    /\ hist = [received |-> {}, faulted |-> FALSE, io |-> made.io]

\* Variant: the Handshake is given a fresh default configuration.
Handshake_of_default_builder(b, io) == [builder |-> Builder_new, io |-> io, state |-> "created"]

\* Builder::handshake: HandshakeInner { builder: self.clone(), io: Some(io) }.
Handshake_of(b, io) == [builder |-> b, io |-> io, state |-> "created"]

\* The exchange of requests is followed over one transport.
Init ==
    \E b \in BOOLEAN :
        Start([Builder_new EXCEPT !.http2 = b],
              Handshake_of([Builder_new EXCEPT !.http2 = b], "ioA"))

----------------------------------------------------------------------------
(* Builder (conn.rs 416-480) *)

\* What the operations of the builder leave alone.
Builder_frame ==
    UNCHANGED <<conn, wire, read_buf, parts, when_ready, panic, handles, unbound,
                buffered_once, taker, queue, sent, promise, fut>>

\* Builder::exec
Builder_exec(e) ==
    /\ builder' = [builder EXCEPT !.exec = e]
    /\ Builder_frame /\ UNCHANGED <<handshake, hist>>

\* Builder::h1_writev
Builder_h1_writev(enabled) ==
    /\ builder' = [builder EXCEPT !.h1_writev = enabled]
    /\ Builder_frame /\ UNCHANGED <<handshake, hist>>

\* Builder::h1_title_case_headers
Builder_h1_title_case_headers(enabled) ==
    /\ builder' = [builder EXCEPT !.h1_title_case_headers = enabled]
    /\ Builder_frame /\ UNCHANGED <<handshake, hist>>

\* Builder::http2_only
Builder_http2_only(enabled) ==
    /\ builder' = [builder EXCEPT !.http2 = enabled]
    /\ Builder_frame /\ UNCHANGED <<handshake, hist>>

\* Builder::handshake(io): builds the Handshake and nothing else.  (One
\* Handshake is followed.)
Builder_handshake(io) ==
    /\ handshake.state = "none"
    /\ handshake' = Handshake_of(builder, io)
    /\ hist' = [hist EXCEPT !.io = io]
    /\ Builder_frame /\ UNCHANGED builder

----------------------------------------------------------------------------
(* The dispatch channel (client/dispatch.rs; modelled from spec 3 and 4.3) *)

\* Sender::can_send: the receiver has asked for a message, or nothing was
\* ever sent through this sender.
Sender_can_send == taker = "want" \/ ~buffered_once

\* Variant: the bounded sender does not look at the readiness signal.
dispatch_accepts_unbounded == taker # "closed"

\* Whether this send is enqueued: the bounded sender needs can_send, and no
\* sender can enqueue once the receiver is gone.
dispatch_accepts == IF unbound THEN taker # "closed"
                    ELSE Sender_can_send /\ taker # "closed"

\* The sender's own state after a send attempt (give() consumes the want).
dispatch_after_send ==
    /\ buffered_once' = IF unbound THEN buffered_once ELSE (buffered_once \/ Sender_can_send)
    /\ taker' = IF ~unbound /\ taker = "want" THEN "idle" ELSE taker

\* Callback::send: the non-retryable callback drops the request that an
\* error carries.
Callback_send(r, v) == IF sent[r].api = "send_request" THEN [v EXCEPT !.req = None] ELSE v

\* The promise map after the driver side resolved the slots of the requests
\* in S with v[r].
Resolved(P, S, v) ==
    [r \in Reqs |-> IF r \in S
                    THEN [st |-> "sent", val |-> Callback_send(r, v[r]), n |-> Min(P[r].n + 1, 2)]
                    ELSE P[r]]

\* Envelope::drop: an envelope dropped with the channel resolves its slot with
\* a cancellation error that hands the request back.
Envelope_drop == [r \in Reqs |-> ErrRes("canceled", "none", r)]

\* The driver side of the channel goes away: a slot it still holds
\* unresolved is dropped, which the waiting future sees as the cancellation
\* of its receiver.
Slots_dropped(P) ==
    [r \in Reqs |-> IF P[r].st = "pending" THEN [P[r] EXCEPT !.st = "canceled"] ELSE P[r]]

\* Giver::poll_want behind Sender::poll_ready: an error once the receiver is
\* gone, ready when it has asked for a message, otherwise not ready.
dispatch_poll_ready ==
    IF taker = "closed" THEN "Err" ELSE IF taker = "want" THEN "Ready" ELSE "NotReady"

\* Sender::is_ready / UnboundedSender::is_ready: a send is expected to
\* succeed.
dispatch_is_ready == IF unbound THEN taker # "closed" ELSE taker = "want"

\* Sender::is_closed / UnboundedSender::is_closed: the receiver is gone.
dispatch_is_closed == taker = "closed"

----------------------------------------------------------------------------
(* Handshake (conn.rs 484-576) *)

\* Variant: the test of builder.http2 loses its negation.
HandshakeInner_variant_inverted(b) == IF b.http2 THEN "H1" ELSE "H2"

\* Variant: the write strategy decides the protocol.
HandshakeInner_variant_by_writev(b) == IF b.h1_writev THEN "H1" ELSE "H2"

\* HandshakeInner::poll: takes the transport, creates the channel and builds
\* the H1 dispatcher or the H2 client according to builder.http2.
HandshakeInner_variant(b) == IF ~b.http2 THEN "H1" ELSE "H2"

\* if !self.builder.h1_writev { conn.set_write_strategy_flatten(); }
HandshakeInner_flatten(b) == ~b.http2 /\ ~b.h1_writev
\* if self.builder.h1_title_case_headers { conn.set_title_case_headers(); }
HandshakeInner_title_case(b) == ~b.http2 /\ b.h1_title_case_headers
\* proto::h2::Client::new(io, rx, self.builder.exec.clone())
HandshakeInner_exec(b) == IF b.http2 THEN b.exec ELSE "none"

\* Variant: the transport is lent to the driver and stays in the Handshake.
Handshake_poll_keeps_io ==
    /\ handshake.state = "created" /\ handshake.io # "None"
    /\ handshake' = [handshake EXCEPT !.state = "done"]
    /\ conn' = [variant |-> HandshakeInner_variant(handshake.builder),
                state |-> "driving", inflight |-> {}, shutdown |-> FALSE,
                io |-> handshake.io,
                flatten |-> HandshakeInner_flatten(handshake.builder),
                title_case |-> HandshakeInner_title_case(handshake.builder),
                exec |-> HandshakeInner_exec(handshake.builder)]
    /\ handles' = 1
    /\ unbound' = FALSE
    /\ buffered_once' = FALSE
    /\ taker' = "idle"
    /\ queue' = <<>>
    /\ UNCHANGED <<sent, promise, fut, hist>>
    /\ UNCHANGED life

\* HandshakeInner::poll on a Handshake not yet polled.
Handshake_poll ==
    /\ handshake.state = "created" /\ handshake.io # "None"
    /\ handshake' = [handshake EXCEPT !.io = "None", !.state = "done"]
    /\ conn' = [variant |-> HandshakeInner_variant(handshake.builder),
                state |-> "driving", inflight |-> {}, shutdown |-> FALSE,
                io |-> handshake.io,
                flatten |-> HandshakeInner_flatten(handshake.builder),
                title_case |-> HandshakeInner_title_case(handshake.builder),
                exec |-> HandshakeInner_exec(handshake.builder)]
    /\ handles' = 1
    /\ unbound' = FALSE
    /\ buffered_once' = FALSE
    /\ taker' = "idle"
    /\ queue' = <<>>
    /\ UNCHANGED <<sent, promise, fut, hist>>
    /\ UNCHANGED life

\* Variant: a Handshake polled again goes through the handshake again.
Handshake_poll_again_rebuilds ==
    /\ handshake.state = "done"
    /\ panic' = panic \cup {"polled more than once"}
    /\ conn' = [conn EXCEPT !.state = "driving", !.inflight = {}]
    /\ handles' = 1
    /\ unbound' = FALSE
    /\ buffered_once' = FALSE
    /\ taker' = "idle"
    /\ queue' = <<>>
    /\ UNCHANGED <<builder, handshake, wire, read_buf, parts, when_ready,
                   sent, promise, fut, hist>>

\* HandshakeInner::poll on a Handshake that has completed: io is None, so
\* self.io.take().expect("polled more than once") panics before anything
\* else is done.
Handshake_poll_again ==
    /\ handshake.state = "done" /\ handshake.io = "None"
    /\ panic' = panic \cup {"polled more than once"}
    /\ UNCHANGED <<builder, handshake, conn, wire, read_buf, parts, when_ready,
                   handles, unbound, buffered_once, taker, queue, sent, promise, fut, hist>>

----------------------------------------------------------------------------
(* SendRequest and Http2SendRequest (conn.rs 138-344) *)

\* Variant: the cancellation error is built without its cause.
send_request_future_no_cause(ok, req) ==
    IF ok THEN [kind |-> "A", st |-> "pending", out |-> NoRes]
    ELSE [kind |-> "B", st |-> "pending", out |-> ErrRes("canceled", "none", None)]

\* The future send_request builds from the result of dispatch.send:
\* Ok(rx) => Either::A(rx.then(..)), Err(_req) => Either::B(future::err(err)).
send_request_future(ok, req) ==
    IF ok THEN [kind |-> "A", st |-> "pending", out |-> NoRes]
    ELSE [kind |-> "B", st |-> "pending", out |-> new_canceled_not_ready]

\* Variant: the request is not put back into the error.
send_request_retryable_future_no_request(ok, req) ==
    IF ok THEN [kind |-> "A", st |-> "pending", out |-> NoRes]
    ELSE [kind |-> "B", st |-> "pending", out |-> new_canceled_not_ready]

\* The same for send_request_retryable: Err(req) => future::err((err, Some(req))).
send_request_retryable_future(ok, req) ==
    IF ok THEN [kind |-> "A", st |-> "pending", out |-> NoRes]
    ELSE [kind |-> "B", st |-> "pending",
          out |-> [new_canceled_not_ready EXCEPT !.req = req]]

\* The same in Http2SendRequest::send_request_retryable.
Http2_send_request_retryable_future(ok, req) ==
    IF ok THEN [kind |-> "A", st |-> "pending", out |-> NoRes]
    ELSE [kind |-> "B", st |-> "pending",
          out |-> [new_canceled_not_ready EXCEPT !.req = req]]

\* A submission of request r through handle h by operation api, whose
\* returned future is f.
Submit(h, r, api, f) ==
    /\ r # None /\ r = NextReq
    /\ h \in 1..handles
    /\ when_ready.tx = None
    /\ sent' = [sent EXCEPT ![r] = [api |-> api, h |-> h]]
    /\ dispatch_after_send
    /\ IF dispatch_accepts
       THEN /\ queue' = Append(queue, r)
            /\ promise' = [promise EXCEPT ![r] = [st |-> "pending", val |-> NoRes, n |-> 0]]
       ELSE UNCHANGED <<queue, promise>>
    /\ fut' = [fut EXCEPT ![r] = f]
    /\ UNCHANGED <<handshake, conn, handles, unbound, hist>>
    /\ UNCHANGED life

send_request(h, r) ==
    /\ ~unbound
    /\ Submit(h, r, "send_request", send_request_future(dispatch_accepts, r))

send_request_retryable(h, r) ==
    /\ ~unbound
    /\ Submit(h, r, "send_request_retryable", send_request_retryable_future(dispatch_accepts, r))

Http2_send_request_retryable(h, r) ==
    /\ unbound
    /\ Submit(h, r, "Http2_send_request_retryable", Http2_send_request_retryable_future(dispatch_accepts, r))

\* SendRequest::poll_ready, is_ready, is_closed: self.dispatch's.
SendRequest_poll_ready == dispatch_poll_ready
SendRequest_is_ready   == dispatch_is_ready
SendRequest_is_closed  == dispatch_is_closed

\* Variant: is_closed answers with the body of is_ready.
Http2_is_closed_as_is_ready == dispatch_is_ready

\* Http2SendRequest::is_ready, is_closed: self.dispatch's.
Http2_is_ready  == dispatch_is_ready
Http2_is_closed == dispatch_is_closed

\* SendRequest::when_ready: WhenReady { tx: Some(self) }.  (One WhenReady is
\* followed.)
SendRequest_when_ready(h) ==
    /\ ~unbound
    /\ h \in 1..handles
    /\ ~when_ready.made
    /\ when_ready' = [made |-> TRUE, tx |-> h, out |-> "none", got |-> None, n |-> 0]
    /\ UNCHANGED <<builder, handshake, conn, wire, read_buf, parts, panic, handles, unbound,
                   buffered_once, taker, queue, sent, promise, fut, hist>>

\* Variant: the handle is not put back when the channel is not ready.
WhenReady_poll_forgets_handle ==
    /\ when_ready.made
    /\ IF when_ready.tx = None
       THEN /\ panic' = panic \cup {"polled after complete"}
            /\ UNCHANGED <<when_ready, handles>>
       ELSE CASE SendRequest_poll_ready = "Ready" ->
                   /\ when_ready' = [when_ready EXCEPT !.tx = None, !.out = "Ready",
                                                       !.got = when_ready.tx]
                   /\ UNCHANGED <<handles, panic>>
              [] SendRequest_poll_ready = "NotReady" ->
                   /\ when_ready' = [when_ready EXCEPT !.tx = None, !.out = "NotReady",
                                                       !.n = Min(@ + 1, 2)]
                   /\ handles' = handles - 1
                   /\ UNCHANGED panic
              [] SendRequest_poll_ready = "Err" ->
                   /\ when_ready' = [when_ready EXCEPT !.tx = None, !.out = "Err"]
                   /\ handles' = handles - 1
                   /\ UNCHANGED panic
    /\ UNCHANGED <<builder, handshake, conn, wire, read_buf, parts, unbound,
                   buffered_once, taker, queue, sent, promise, fut, hist>>

\* Variant: the handle is put back when poll_ready fails.
WhenReady_poll_keeps_handle_on_error ==
    /\ when_ready.made
    /\ IF when_ready.tx = None
       THEN /\ panic' = panic \cup {"polled after complete"}
            /\ UNCHANGED <<when_ready, handles>>
       ELSE CASE SendRequest_poll_ready = "Ready" ->
                   /\ when_ready' = [when_ready EXCEPT !.tx = None, !.out = "Ready",
                                                       !.got = when_ready.tx]
                   /\ UNCHANGED <<handles, panic>>
              [] SendRequest_poll_ready = "NotReady" ->
                   /\ when_ready' = [when_ready EXCEPT !.out = "NotReady", !.n = Min(@ + 1, 2)]
                   /\ UNCHANGED <<handles, panic>>
              [] SendRequest_poll_ready = "Err" ->
                   /\ when_ready' = [when_ready EXCEPT !.out = "Err"]
                   /\ UNCHANGED <<handles, panic>>
    /\ UNCHANGED <<builder, handshake, conn, wire, read_buf, parts, unbound,
                   buffered_once, taker, queue, sent, promise, fut, hist>>

\* WhenReady::poll: tx = self.tx.take().expect("polled after complete");
\* match tx.poll_ready()? { Ready(()) => Ok(Ready(tx)),
\* NotReady => { self.tx = Some(tx); Ok(NotReady) } }.  On an error the ?
\* returns it and tx, a local, is dropped.
WhenReady_poll ==
    /\ when_ready.made
    /\ IF when_ready.tx = None
       THEN /\ panic' = panic \cup {"polled after complete"}
            /\ UNCHANGED <<when_ready, handles>>
       ELSE CASE SendRequest_poll_ready = "Ready" ->
                   /\ when_ready' = [when_ready EXCEPT !.tx = None, !.out = "Ready",
                                                       !.got = when_ready.tx]
                   /\ UNCHANGED <<handles, panic>>
              [] SendRequest_poll_ready = "NotReady" ->
                   /\ when_ready' = [when_ready EXCEPT !.out = "NotReady", !.n = Min(@ + 1, 2)]
                   /\ UNCHANGED <<handles, panic>>
              [] SendRequest_poll_ready = "Err" ->
                   /\ when_ready' = [when_ready EXCEPT !.tx = None, !.out = "Err"]
                   /\ handles' = handles - 1
                   /\ UNCHANGED panic
    /\ UNCHANGED <<builder, handshake, conn, wire, read_buf, parts, unbound,
                   buffered_once, taker, queue, sent, promise, fut, hist>>

\* SendRequest::into_http2: the single-owner handle becomes a cloneable one.
into_http2(h) ==
    /\ ~unbound
    /\ h \in 1..handles
    /\ when_ready.tx = None
    /\ unbound' = TRUE
    /\ UNCHANGED <<handshake, conn, handles, buffered_once, taker, queue, sent, promise, fut, hist>>
    /\ UNCHANGED life

\* Http2SendRequest::clone: one more handle on the same channel.
Http2_clone(h) ==
    /\ unbound
    /\ h \in 1..handles
    /\ handles < MaxHandles
    /\ handles' = handles + 1
    /\ UNCHANGED <<handshake, conn, unbound, buffered_once, taker, queue, sent, promise, fut, hist>>
    /\ UNCHANGED life

\* Dropping a handle (the remaining ones are renumbered); the channel's
\* sending side is closed when none is left.
Drop_handle(h) ==
    /\ h \in 1..handles
    /\ when_ready.tx = None
    /\ handles' = handles - 1
    /\ UNCHANGED <<handshake, conn, unbound, buffered_once, taker, queue, sent, promise, fut, hist>>
    /\ UNCHANGED life

----------------------------------------------------------------------------
(* The protocol drivers (proto::h1::Dispatcher and proto::h2::Client;       *)
(* modelled from spec 4.5, 5 and 7).  A poll reads one event from the      *)
(* transport: nothing new, the response to a request in flight, a clean    *)
(* end of stream, or a read/write/framing fault.                           *)

Events == {"none", "response", "eof", "fault"}

\* The driver resolves: the requests in flight F get the error e (F is empty
\* on success); then the receiver goes away with it, so the channel is
\* closed, every envelope still queued (Q) is dropped, and so is every slot
\* left unresolved after that.
Driver_resolve(state, Q, F, e, shut, rcv, faulted) ==
    /\ conn' = [conn EXCEPT !.state = state, !.inflight = {}, !.shutdown = shut]
    /\ taker' = "closed"
    /\ queue' = <<>>
    /\ promise' = Slots_dropped(Resolved(Resolved(promise, F, [r \in Reqs |-> e]),
                                         SeqToSet(Q), Envelope_drop))
    /\ hist' = [hist EXCEPT !.received = rcv, !.faulted = faulted]

\* The driver stays in Driving with Q queued and F in flight.
Driver_continue(Q, F, want, P, rcv) ==
    /\ conn' = [conn EXCEPT !.inflight = F]
    /\ taker' = IF want /\ taker = "idle" THEN "want" ELSE taker
    /\ queue' = Q
    /\ promise' = P
    /\ hist' = [hist EXCEPT !.received = rcv]

\* The request the H1 dispatcher works on after looking at the channel: the
\* one in flight, else the head of the queue.
H1_take == IF conn.inflight = {} /\ queue # <<>> THEN {Head(queue)} ELSE conn.inflight
H1_rest == IF conn.inflight = {} /\ queue # <<>> THEN Tail(queue) ELSE queue
\* The receiver is polled (and, finding nothing, signals want) only when no
\* request is in flight.
H1_wants == conn.inflight = {} /\ queue = <<>>

\* Variant: a response that cannot be handed to a dropped future is an error.
H1_outcome_send_must_succeed(ev, F) ==
    CASE ev = "fault"    -> "err"
      [] ev = "eof"      -> IF F = {} THEN "ok" ELSE "err"
      [] ev = "none"     -> IF F = {} /\ handles = 0 THEN "ok" ELSE "driving"
      [] ev = "response" -> IF \E r \in F : fut[r].st = "dropped" THEN "err" ELSE "driving"

\* Variant: the dispatcher is done as soon as every handle is gone.
H1_outcome_done_when_handles_gone(ev, F) ==
    CASE ev = "fault"    -> "err"
      [] ev = "eof"      -> IF F = {} THEN "ok" ELSE "err"
      [] ev = "none"     -> IF handles = 0 THEN "ok" ELSE "driving"
      [] ev = "response" -> "driving"

\* Where a poll of the H1 dispatcher that saw ev, with F in flight, leaves the
\* driver: a fault, or an end of stream in the middle of an exchange, is its
\* terminal error; it is done when nothing is in flight and either the peer
\* closed or every handle is gone.  A response handed to a slot whose future
\* was dropped is discarded without failing.
H1_outcome(ev, F) ==
    CASE ev = "fault"    -> "err"
      [] ev = "eof"      -> IF F = {} THEN "ok" ELSE "err"
      [] ev = "none"     -> IF F = {} /\ handles = 0 THEN "ok" ELSE "driving"
      [] ev = "response" -> "driving"

\* The error the requests in flight get when the driver resolves.
Driver_error(ev) ==
    CASE ev = "fault" -> ErrRes("io", "none", None)
      [] ev = "eof"   -> ErrRes("incomplete", "none", None)
      [] OTHER        -> ErrRes("canceled", "none", None)

\* The poll met a transport or protocol fault.
Faulted(ev, F) == ev = "fault" \/ (ev = "eof" /\ F # {})

\* The response the driver hands to the slot of request r.
Delivery == [r \in Reqs |-> OkRes(ResponseOf(r))]

\* The peer writes one more byte after its HTTP messages.  The bytes of the
\* tail are numbered in the order written.
Peer_sends ==
    /\ conn.state \in {"none", "driving"}
    /\ Len(read_buf) + Len(wire) < MaxTail
    /\ wire' = Append(wire, Len(read_buf) + Len(wire) + 1)
    /\ UNCHANGED <<builder, handshake, conn, read_buf, parts, when_ready, panic,
                   handles, unbound, buffered_once, taker, queue, sent, promise, fut, hist>>

\* A poll of the H1 dispatcher reads what the transport has: what is not
\* HTTP stays, in order, in the read-ahead buffer.
H1_read ==
    /\ read_buf' = read_buf \o wire
    /\ wire' = <<>>

\* The H2 client consumes all it reads as frames; it has no read-ahead
\* buffer to give back.
H2_read ==
    /\ read_buf' = read_buf
    /\ wire' = <<>>

\* One poll of the HTTP/1.1 dispatcher; should_shutdown tells whether the
\* transport is shut down on completion.
H1_poll(ev, should_shutdown) ==
    LET F   == H1_take
        Q   == H1_rest
        rcv == hist.received \cup F
        out == H1_outcome(ev, F)
    IN  /\ conn.variant = "H1" /\ conn.state = "driving"
        /\ ev = "response" => F # {}
        /\ IF out = "driving"
           THEN IF ev = "response"
                THEN Driver_continue(Q, {}, FALSE, Resolved(promise, F, Delivery), rcv)
                ELSE Driver_continue(Q, F, H1_wants, promise, rcv)
           ELSE Driver_resolve(out, Q, F, Driver_error(ev),
                               IF out = "ok" THEN conn.shutdown \/ should_shutdown ELSE conn.shutdown,
                               rcv, hist.faulted \/ Faulted(ev, F))
        /\ H1_read
        /\ UNCHANGED <<handshake, handles, unbound, buffered_once, sent, fut>>
        /\ UNCHANGED <<builder, parts, when_ready, panic>>

\* The same for the H2 client.
H2_outcome(ev, F) ==
    CASE ev = "fault"    -> "err"
      [] ev = "eof"      -> IF F = {} THEN "ok" ELSE "err"
      [] ev = "none"     -> IF F = {} /\ handles = 0 THEN "ok" ELSE "driving"
      [] ev = "response" -> "driving"

\* Variant: responses are matched to streams by age, not by stream.
H2_response_oldest_stream(t, F) ==
    OkRes(ResponseOf(CHOOSE x \in F : \A y \in F : x <= y))

\* The response the multiplexer hands to the slot of stream t, F being the
\* streams in flight: the one the peer sent on that stream.
H2_response(t, F) == OkRes(ResponseOf(t))

\* One poll of the HTTP/2 client: it takes every queued request (streams are
\* multiplexed) and may complete any stream t in flight.
H2_poll(ev, t) ==
    LET F   == conn.inflight \cup SeqToSet(queue)
        rcv == hist.received \cup F
        out == H2_outcome(ev, F)
    IN  /\ conn.variant = "H2" /\ conn.state = "driving"
        /\ IF ev = "response" THEN t \in F ELSE t = None
        /\ IF out = "driving"
           THEN IF ev = "response"
                THEN Driver_continue(<<>>, F \ {t}, TRUE,
                                     Resolved(promise, {t}, [x \in Reqs |-> H2_response(t, F)]), rcv)
                ELSE Driver_continue(<<>>, F, TRUE, promise, rcv)
           ELSE Driver_resolve(out, <<>>, F, Driver_error(ev),
                               IF out = "ok" THEN TRUE ELSE conn.shutdown,
                               rcv, hist.faulted \/ Faulted(ev, F))
        /\ H2_read
        /\ UNCHANGED <<handshake, handles, unbound, buffered_once, sent, fut>>
        /\ UNCHANGED <<builder, parts, when_ready, panic>>

----------------------------------------------------------------------------
(* Connection (conn.rs 346-401) *)

\* Future::poll for Connection: self.inner.poll(), the poll of whichever
\* driver the Either holds; the H1 dispatcher's poll shuts the transport
\* down on completion.
Connection_poll(ev, t) ==
    IF conn.variant = "H1" THEN t = None /\ H1_poll(ev, TRUE) ELSE H2_poll(ev, t)

\* Variant: the Either::A arm calls h1.poll().
Connection_poll_without_shutdown_as_poll(ev, t) ==
    IF conn.variant = "H1" THEN t = None /\ H1_poll(ev, TRUE) ELSE H2_poll(ev, t)

\* Connection::poll_without_shutdown: Either::A => h1.poll_without_shutdown(),
\* Either::B => h2.poll().
Connection_poll_without_shutdown(ev, t) ==
    IF conn.variant = "H1" THEN t = None /\ H1_poll(ev, FALSE) ELSE H2_poll(ev, t)

\* The Connection is dropped while driving: the channel is torn down, and
\* every slot the driver side still holds is resolved with a cancellation.
Drop_connection ==
    /\ conn.state = "driving"
    /\ Driver_resolve("dropped", queue, conn.inflight, ErrRes("canceled", "none", None),
                      conn.shutdown, hist.received, hist.faulted)
    /\ UNCHANGED <<handshake, handles, unbound, buffered_once, sent, fut>>
    /\ UNCHANGED life

\* What goes with the driver when the Connection is consumed: the
\* receiver, so the channel is torn down as in Drop_connection.
Connection_consumed(state) ==
    IF conn.state = "driving"
    THEN Driver_resolve(state, queue, conn.inflight, ErrRes("canceled", "none", None),
                        conn.shutdown, hist.received, hist.faulted)
    ELSE /\ conn' = [conn EXCEPT !.state = state]
         /\ UNCHANGED <<taker, queue, promise, hist>>

\* Variant: the Either::B arm gives back the transport with an empty buffer.
into_parts_of_either_driver ==
    /\ conn.state \in {"driving", "ok", "err"}
    /\ parts' = [io |-> conn.io, read_buf |-> IF conn.variant = "H1" THEN read_buf ELSE <<>>]
    /\ Connection_consumed("parts")
    /\ UNCHANGED <<builder, handshake, wire, read_buf, when_ready, panic,
                   handles, unbound, buffered_once, sent, fut>>

\* Variant: the buffer is not carried into the Parts.
into_parts_without_read_buf ==
    /\ conn.state \in {"driving", "ok", "err"}
    /\ IF conn.variant = "H1"
       THEN /\ parts' = [io |-> conn.io, read_buf |-> <<>>]
            /\ Connection_consumed("parts")
            /\ UNCHANGED panic
       ELSE /\ panic' = panic \cup {"http2 cannot into_inner"}
            /\ Connection_consumed("dropped")
            /\ UNCHANGED parts
    /\ UNCHANGED <<builder, handshake, wire, read_buf, when_ready,
                   handles, unbound, buffered_once, sent, fut>>

\* Connection::into_parts consumes the Connection (driving or resolved):
\* Either::A(h1) => h1.into_inner(), whose transport and read buffer make
\* the Parts; Either::B(_h2) => panic!("http2 cannot into_inner"), the
\* driver being dropped by the unwinding.
into_parts ==
    /\ conn.state \in {"driving", "ok", "err"}
    /\ IF conn.variant = "H1"
       THEN /\ parts' = [io |-> conn.io, read_buf |-> read_buf]
            /\ Connection_consumed("parts")
            /\ UNCHANGED panic
       ELSE /\ panic' = panic \cup {"http2 cannot into_inner"}
            /\ Connection_consumed("dropped")
            /\ UNCHANGED parts
    /\ UNCHANGED <<builder, handshake, wire, read_buf, when_ready,
                   handles, unbound, buffered_once, sent, fut>>

----------------------------------------------------------------------------
(* ResponseFuture (conn.rs 219-266, 306-328, 580-588) *)

\* The closure given to rx.then in send_request and its retryable forms:
\* Ok(Ok(res)) => Ok(res), Ok(Err(err)) => Err(err),
\* Err(_) => panic!("dispatch dropped without returning error").
\* Variant: the Ok(Err(err)) arm is lost, so an error falls into the last arm.
then_closure_merged_arms(p) ==
    IF p.st = "sent" /\ p.val.ok THEN [st |-> "ready", out |-> p.val]
    ELSE [st |-> "panic", out |-> NoRes]

then_closure(p) ==
    IF p.st = "sent" THEN [st |-> "ready", out |-> p.val]
    ELSE [st |-> "panic", out |-> NoRes]

\* ResponseFuture::poll (and the poll of the boxed retryable future).  A
\* poll that finds the slot unresolved returns NotReady and changes nothing.
ResponseFuture_poll(r) ==
    /\ fut[r].st = "pending"
    /\ fut' = [fut EXCEPT ![r] =
                 IF fut[r].kind = "B" THEN [@ EXCEPT !.st = "ready"]
                 ELSE IF promise[r].st \in {"pending", "none"} THEN @
                 ELSE [kind |-> "A", st |-> then_closure(promise[r]).st,
                       out |-> then_closure(promise[r]).out]]
    /\ UNCHANGED <<handshake, conn, handles, unbound, buffered_once, taker, queue, sent, promise, hist>>
    /\ UNCHANGED life

\* The caller drops a response future that has not resolved.
Drop_future(r) ==
    /\ fut[r].st = "pending"
    /\ fut' = [fut EXCEPT ![r].st = "dropped"]
    /\ UNCHANGED <<handshake, conn, handles, unbound, buffered_once, taker, queue, sent, promise, hist>>
    /\ UNCHANGED life

----------------------------------------------------------------------------
(* Specification *)

Next ==
    \/ Handshake_poll
    \/ \E h \in Handles, r \in Reqs : send_request(h, r)
    \/ \E h \in Handles, r \in Reqs : send_request_retryable(h, r)
    \/ \E h \in Handles, r \in Reqs : Http2_send_request_retryable(h, r)
    \/ \E h \in Handles : into_http2(h)
    \/ \E h \in Handles : Http2_clone(h)
    \/ \E h \in Handles : Drop_handle(h)
    \/ \E ev \in Events, t \in Reqs \cup {None} : Connection_poll(ev, t)
    \/ \E ev \in Events, t \in Reqs \cup {None} : Connection_poll_without_shutdown(ev, t)
    \/ Drop_connection
    \/ \E r \in Reqs : ResponseFuture_poll(r)
    \/ \E r \in Reqs : Drop_future(r)

Spec == Init /\ [][Next]_vars

\* The builder, the handshake and the life of the driver, with no request:
\* the builder is changed at will, one Handshake is made from it and polled,
\* and the driver is polled, decomposed or dropped while the peer may write.
HsInit == Start(Builder_new, NoHandshake)

HsNext ==
    \/ \E e \in Execs : Builder_exec(e)
    \/ \E enabled \in BOOLEAN : Builder_h1_writev(enabled)
    \/ \E enabled \in BOOLEAN : Builder_h1_title_case_headers(enabled)
    \/ \E enabled \in BOOLEAN : Builder_http2_only(enabled)
    \/ \E io \in Transports : Builder_handshake(io)
    \/ Handshake_poll
    \/ Handshake_poll_again
    \/ Peer_sends
    \/ \E ev \in Events : Connection_poll(ev, None)
    \/ into_parts
    \/ \E h \in Handles : Drop_handle(h)
    \/ Drop_connection

HsSpec == HsInit /\ [][HsNext]_vars

\* The life of one connection over either transport, with requests sent
\* through the single-owner handle, the handle waited for in a WhenReady, the
\* peer writing past its responses, and the driver polled either way,
\* decomposed or dropped.
LifeInit ==
    \E b \in BOOLEAN, io \in Transports :
        Start([Builder_new EXCEPT !.http2 = b],
              Handshake_of([Builder_new EXCEPT !.http2 = b], io))

LifeNext ==
    \/ Handshake_poll
    \/ \E h \in Handles, r \in Reqs : send_request(h, r)
    \/ \E h \in Handles : SendRequest_when_ready(h)
    \/ WhenReady_poll
    \/ \E h \in Handles : Drop_handle(h)
    \/ Peer_sends
    \/ \E ev \in Events, t \in Reqs \cup {None} : Connection_poll(ev, t)
    \/ \E ev \in Events, t \in Reqs \cup {None} : Connection_poll_without_shutdown(ev, t)
    \/ into_parts
    \/ Drop_connection

LifeSpec == LifeInit /\ [][LifeNext]_vars

----------------------------------------------------------------------------
(* Vocabulary of the properties *)

\* The submission of r was accepted: its envelope, with a response slot, was
\* enqueued.
Accepted(r) == promise[r].st # "none"
\* The submission of r was made and rejected.
Rejected(r) == sent[r].api # "none" /\ promise[r].st = "none"
\* The response slot of r is still unresolved.
Unresolved(r) == promise[r].st = "pending"
\* The handshake built an HTTP/1.1 (HTTP/2) connection: http2_only was not
\* (was) set on the builder.
H1Conn == conn.variant # "none" /\ ~handshake.builder.http2
H2Conn == conn.variant # "none" /\ handshake.builder.http2
\* The operations of the single-owner handle, and the retryable ones.
BoundedApis   == {"send_request", "send_request_retryable"}
RetryableApis == {"send_request_retryable", "Http2_send_request_retryable"}
\* The first poll of r's future is possible right now and resolves it to out.
PollResolvesTo(r, out) ==
    ENABLED (ResponseFuture_poll(r) /\ fut'[r].st = "ready" /\ fut'[r].out = out)
\* r was submitted in this step.
Submitted(r) == sent[r].api = "none" /\ sent'[r].api # "none"

----------------------------------------------------------------------------
(* Properties *)

\* A poll of the driver to which the transport brings nothing new gets the
\* connection further: it changes the driver, the channel or a slot.
PollAloneAdvances ==
    ENABLED (/\ Connection_poll("none", None)
             /\ <<conn, taker, queue, promise>>' # <<conn, taker, queue, promise>>)

C2_SecondSendFails ==
    [][\A r \in Reqs :
         (/\ Submitted(r) /\ sent'[r].api \in BoundedApis
          /\ H1Conn
          /\ \E q \in Reqs : Unresolved(q))
         => /\ promise'[r].st = "none"
            /\ fut'[r].kind = "B"
            /\ fut'[r].out.err = "canceled" /\ fut'[r].out.cause = NotReadyMsg
            /\ (sent'[r].api = "send_request_retryable" => fut'[r].out.req = r)]_vars

\* C2 witness: request 1 is accepted and unresolved, the retryable request 2
\* submitted after it was rejected and its future resolved with the request.
C2_Witness ==
    /\ H1Conn /\ Unresolved(1)
    /\ sent[2].api = "send_request_retryable" /\ Rejected(2)
    /\ fut[2].st = "ready" /\ fut[2].out.req = 2

\* C3: the bounded channel never holds more than one un-taken submission, and
\* a send through the single-owner handle made while one is queued is
\* rejected, handed back and not queued.
C3_OneUntaken ==
    /\ [](~unbound => Len(queue) <= 1)
    /\ [][\A r \in Reqs :
            (Submitted(r) /\ sent'[r].api \in BoundedApis /\ queue # <<>>)
            => /\ queue' = queue
               /\ promise'[r].st = "none"
               /\ fut'[r].kind = "B"
               /\ (sent'[r].api = "send_request_retryable" => fut'[r].out.req = r)]_vars

\* C3 witness: request 1 sits in the bounded channel, not taken by the driver,
\* and request 2, sent meanwhile, was rejected.
C3_Witness ==
    /\ ~unbound /\ queue = <<1>> /\ 1 \notin hist.received
    /\ sent[2].api \in BoundedApis /\ Rejected(2) /\ fut[2].kind = "B"

\* C4: a send_request that could not enqueue returned an already-failed
\* future: its first poll can be made at once, with no step of the driver,
\* and resolves to the canceled "connection was not ready" error; it never
\* reports pending.
C4_AlreadyFailed ==
    \A r \in Reqs :
        (sent[r].api = "send_request" /\ promise[r].st = "none")
        => /\ fut[r].st \in {"pending", "ready", "dropped"}
           /\ (fut[r].st = "pending" =>
                 /\ PollResolvesTo(r, new_canceled_not_ready)
                 /\ ~ENABLED (ResponseFuture_poll(r) /\ fut'[r].st # "ready"))
           /\ (fut[r].st = "ready" => fut[r].out = new_canceled_not_ready)

\* C4 witness: send_request was rejected because the single slot is occupied
\* (request 1 is still queued), and the future's poll gave the error while
\* the driver has taken nothing.
C4_Witness ==
    /\ queue = <<1>> /\ hist.received = {}
    /\ sent[2].api = "send_request" /\ Rejected(2)
    /\ fut[2].st = "ready" /\ fut[2].out = new_canceled_not_ready

\* C5: a send_request_retryable (of either handle) that could not enqueue
\* returns a future that fails with the canceled error and Some(request), the
\* request being the one submitted; the request is not in the channel and
\* the driver never receives it.
C5_RequestHandedBack ==
    \A r \in Reqs :
        (sent[r].api \in RetryableApis /\ (promise[r].st = "none" \/ fut[r].kind = "B"))
        => /\ fut[r].kind = "B" /\ promise[r].st = "none"
           /\ fut[r].st \in {"pending", "ready", "dropped"}
           /\ fut[r].out = ErrRes("canceled", NotReadyMsg, r)
           /\ (fut[r].st = "pending" => PollResolvesTo(r, ErrRes("canceled", NotReadyMsg, r)))
           /\ r \notin SeqToSet(queue) /\ r \notin hist.received /\ r \notin conn.inflight

\* C5 witness: with the channel closed, a retryable send through the
\* single-owner handle and one through the cloneable handle were both
\* rejected, and each future resolved with its own request.
C5_Witness ==
    /\ sent[1].api = "send_request_retryable" /\ Rejected(1)
    /\ fut[1].st = "ready" /\ fut[1].out = ErrRes("canceled", NotReadyMsg, 1)
    /\ sent[2].api = "Http2_send_request_retryable" /\ Rejected(2)
    /\ fut[2].st = "ready" /\ fut[2].out = ErrRes("canceled", NotReadyMsg, 2)

\* C6: on an HTTP/1.1 connection responses are delivered in the order in
\* which the requests were accepted: when the response of r is delivered,
\* every request accepted before r has already been resolved.
C6_FifoDelivery ==
    [][\A r \in Reqs :
         (H1Conn /\ Unresolved(r) /\ promise'[r].st = "sent" /\ promise'[r].val.ok)
         => \A q \in Reqs : (q < r /\ Accepted(q)) => promise[q].st = "sent"]_vars

\* C6 witness: two requests were accepted on an HTTP/1.1 connection and both
\* futures resolved with their responses.
C6_Witness ==
    /\ H1Conn
    /\ \A r \in {1, 2} : /\ sent[r].api \in BoundedApis
                         /\ fut[r].kind = "A" /\ fut[r].st = "ready"
                         /\ fut[r].out = OkRes(ResponseOf(r))

\* C7: on an HTTP/2 connection every delivered response is the one of its
\* own request, a resolved future holds exactly what was delivered to its
\* slot, and two futures never resolve to the same response.
C7_OwnResponse ==
    H2Conn =>
      /\ \A r \in Reqs :
           /\ (promise[r].st = "sent" /\ promise[r].val.ok) => promise[r].val.resp = ResponseOf(r)
           /\ (fut[r].kind = "A" /\ fut[r].st = "ready") => fut[r].out = promise[r].val
      /\ \A r, q \in Reqs :
           (r # q /\ fut[r].st = "ready" /\ fut[r].out.ok /\ fut[q].st = "ready" /\ fut[q].out.ok)
           => fut[r].out.resp # fut[q].out.resp

\* C7 witness: two requests submitted through two different clones are in
\* flight together; the later one has resolved to its own response while the
\* earlier one is still in flight.
C7_Witness ==
    /\ H2Conn /\ conn.variant = "H2"
    /\ sent[1].api = "Http2_send_request_retryable"
    /\ sent[2].api = "Http2_send_request_retryable"
    /\ sent[1].h # sent[2].h
    /\ 1 \in conn.inflight /\ Unresolved(1)
    /\ fut[2].st = "ready" /\ fut[2].out = OkRes(ResponseOf(2))

\* C8: dropping a response future changes nothing but that future, and an
\* HTTP/1.1 driver fails only because of a transport or protocol fault: in
\* particular handing the response to the slot of a dropped future leaves it
\* driving.
C8_DropDoesNotFailDriver ==
    /\ [][\A r \in Reqs :
            (fut[r].st = "pending" /\ fut'[r].st = "dropped")
            => /\ conn' = conn /\ promise' = promise /\ queue' = queue
               /\ \A q \in Reqs \ {r} : fut'[q] = fut[q]]_vars
    /\ [][\A r \in Reqs :
            (H1Conn /\ fut[r].st = "dropped" /\ Unresolved(r)
               /\ promise'[r].st = "sent" /\ promise'[r].val.ok)
            => conn'.state = "driving"]_vars
    /\ [](H1Conn /\ conn.state = "err" => hist.faulted)

\* C8 witness: the future of request 1 was dropped, the driver nevertheless
\* took the request and delivered its response, served request 2 and then
\* finished with success.
C8_Witness ==
    /\ H1Conn /\ conn.state = "ok" /\ ~hist.faulted
    /\ fut[1].kind = "A" /\ fut[1].st = "dropped"
    /\ promise[1].st = "sent" /\ promise[1].val.ok
    /\ fut[2].st = "ready" /\ fut[2].out = OkRes(ResponseOf(2))

\* C9: a fault makes the driver resolve to an error, the error is terminal,
\* and when the driver has resolved to an error no slot is left unresolved:
\* those unresolved at the fault got an error, and the poll of every future
\* still pending resolves it at once to what its slot holds.
C9_FaultIsTerminal ==
    /\ [][(~hist.faulted /\ hist'.faulted) => conn'.state = "err"]_vars
    /\ [][conn.state = "err" => conn'.state = "err"]_vars
    /\ [][\A r \in Reqs :
            (conn.state = "driving" /\ conn'.state = "err" /\ Unresolved(r))
            => promise'[r].st = "sent" /\ ~promise'[r].val.ok]_vars
    /\ [](conn.state = "err" =>
            \A r \in Reqs :
               /\ ~Unresolved(r) /\ r \notin SeqToSet(queue) /\ r \notin conn.inflight
               /\ (fut[r].kind = "A" /\ fut[r].st = "pending") => PollResolvesTo(r, promise[r].val)
               /\ (fut[r].kind = "A" /\ fut[r].st = "ready") => fut[r].out = promise[r].val)

\* C9 witness: a fault hit while request 1 was in flight and request 2 was
\* queued; the driver is in its error state and both futures resolved with an
\* error.
C9_Witness ==
    /\ conn.state = "err" /\ hist.faulted
    /\ hist.received = {1}
    /\ \A r \in {1, 2} : fut[r].kind = "A" /\ fut[r].st = "ready" /\ ~fut[r].out.ok
    /\ fut[1].out.err = "io"

\* C10: the driver resolves to success only when no accepted request is
\* unresolved: none is at the step that resolves it, and none is in any state
\* in which it is resolved.
C10_OkMeansNothingOutstanding ==
    /\ [][(conn.state = "driving" /\ conn'.state = "ok")
          => \A r \in Reqs : ~Unresolved(r) /\ promise'[r] = promise[r]]_vars
    /\ [](conn.state = "ok" =>
            /\ queue = <<>> /\ conn.inflight = {}
            /\ \A r \in Reqs : Accepted(r) => promise[r].st = "sent")

\* C10 witness: the driver resolved to success after serving two requests.
C10_Witness ==
    /\ conn.state = "ok"
    /\ \A r \in {1, 2} : promise[r].st = "sent" /\ promise[r].val.ok

----------------------------------------------------------------------------
(* Properties of the builder, the handshake and the driver's life *)

\* C11: the handshake chooses the protocol from the forced-HTTP/2 flag of the
\* configuration it carries and from nothing else: whatever the executor,
\* the write strategy and the header casing, the driver is the HTTP/1.1 one
\* exactly when the flag is false and the HTTP/2 one exactly when it is true;
\* and once a driver exists no step changes its variant.
C11_ProtocolFromFlagAlone ==
    /\ [](conn.variant # "none" =>
            /\ conn.variant \in {"H1", "H2"}
            /\ (conn.variant = "H1") = (~handshake.builder.http2)
            /\ (conn.variant = "H2") = handshake.builder.http2)
    /\ [][conn.variant # "none" => conn'.variant = conn.variant]_vars

\* C11 witness: a handshake whose other settings all differ from the defaults
\* built an HTTP/1.1 driver, which is still one after it has resolved and
\* after the builder was switched to HTTP/2.
C11_Witness ==
    /\ handshake.builder = [exec |-> "Custom", h1_writev |-> FALSE,
                            h1_title_case_headers |-> TRUE, http2 |-> FALSE]
    /\ conn.variant = "H1" /\ conn.state = "ok"
    /\ builder.http2

\* C12: a Handshake that has completed holds no transport; polling it again
\* is always the panic "polled more than once" and never a handshake: the
\* step changes nothing else (no channel, handle or driver is made, nothing
\* is read from or written to the transport), and after completion no step
\* brings a resolved driver back to driving, adds a handle, gives the driver
\* another transport or changes the Handshake.
C12_NoSecondHandshake ==
    /\ [](handshake.state = "done" =>
            /\ handshake.io = "None"
            /\ ~ENABLED Handshake_poll
            /\ ENABLED Handshake_poll_again
            /\ ~ENABLED (Handshake_poll_again /\ "polled more than once" \notin panic'))
    /\ []("polled more than once" \in panic => handshake.state = "done")
    /\ [][("polled more than once" \notin panic /\ "polled more than once" \in panic')
          => UNCHANGED <<builder, handshake, conn, wire, read_buf, parts, when_ready,
                         handles, unbound, buffered_once, taker, queue, sent, promise,
                         fut, hist>>]_vars
    /\ [][handshake.state = "done"
          => /\ handshake' = handshake
             /\ conn'.io = conn.io
             /\ handles' <= handles
             /\ (conn.state # "driving" => conn'.state # "driving")]_vars

\* C12 witness: the completed Handshake was polled again while the driver it
\* made was driving and the peer's bytes were waiting: the panic was raised,
\* the driver, its transport and the one handle are as they were, and the
\* bytes are still unread.
C12_Witness ==
    /\ handshake.state = "done" /\ "polled more than once" \in panic
    /\ conn.state = "driving" /\ conn.io = hist.io /\ handles = 1
    /\ wire = <<1>> /\ read_buf = <<>>

\* C17: the Handshake gets the builder's configuration as it is when
\* handshake(io) is called, and making it touches neither the transport nor
\* anything else; no later step, in particular no setter of the builder,
\* changes the configuration the Handshake holds; and the driver is built
\* from that configuration: protocol, write strategy, header casing, executor.
C17_ConfigCopiedAtHandshake ==
    /\ [][(handshake.state = "none" /\ handshake'.state # "none")
          => /\ handshake'.builder = builder
             /\ handshake'.io \in Transports /\ handshake'.state = "created"
             /\ UNCHANGED <<builder, conn, wire, read_buf, parts, handles, taker, queue>>]_vars
    /\ [][handshake.state # "none" => handshake'.builder = handshake.builder]_vars
    /\ [](conn.variant = "H1" =>
            /\ ~handshake.builder.http2
            /\ conn.flatten = ~handshake.builder.h1_writev
            /\ conn.title_case = handshake.builder.h1_title_case_headers)
    /\ [](conn.variant = "H2" =>
            /\ handshake.builder.http2
            /\ conn.exec = handshake.builder.exec)

\* C17 witness: the Handshake was made from a builder with HTTP/2 forced and a
\* custom executor, over a transport on which the peer had already written;
\* every setting of the builder was changed afterwards; the poll built the
\* HTTP/2 driver with the custom executor, and nothing was read meanwhile.
C17_Witness ==
    /\ handshake.state = "done"
    /\ handshake.builder = [exec |-> "Custom", h1_writev |-> TRUE,
                            h1_title_case_headers |-> FALSE, http2 |-> TRUE]
    /\ builder = [exec |-> "Default", h1_writev |-> FALSE,
                  h1_title_case_headers |-> TRUE, http2 |-> FALSE]
    /\ conn.variant = "H2" /\ conn.exec = "Custom" /\ conn.state = "driving"
    /\ wire = <<1, 2>> /\ read_buf = <<>>

\* C20: the first poll of a Handshake can always be made and always completes
\* with the pair: it is never not-ready and never an error or a panic.  It
\* moves the transport out of the Handshake into the driver, which is the
\* only holder of it from then on, and makes one fresh channel (empty, not
\* yet asked for a message) with one handle; handle and driver are its two
\* ends: the handle sees it closed exactly when the driver is gone, and the
\* driver with nothing to do finishes when the handle is gone.
C20_FirstPollCompletes ==
    /\ [](handshake.state = "created" =>
            /\ handshake.io \in Transports
            /\ conn = NoConn /\ handles = 0
            /\ ENABLED Handshake_poll)
    /\ [][(handshake.state = "created" /\ handshake' # handshake)
          => /\ handshake'.state = "done" /\ handshake'.io = "None"
             /\ conn'.io = handshake.io /\ conn'.state = "driving"
             /\ conn'.variant \in {"H1", "H2"}
             /\ handles' = 1 /\ ~unbound'
             /\ queue' = <<>> /\ taker' = "idle" /\ ~buffered_once'
             /\ UNCHANGED <<panic, wire, read_buf, parts>>]_vars
    /\ [](conn.variant # "none" =>
            /\ handshake.io = "None" /\ conn.io = hist.io
            /\ SendRequest_is_closed = (conn.state # "driving")
            /\ (conn.state = "driving" /\ handles = 0)
               => ENABLED (Connection_poll("none", None) /\ conn'.state = "ok"))

\* C20 witness: the Handshake over the second transport, with HTTP/2 forced,
\* completed without a panic; the handle was then dropped and the driver, on
\* its next poll, finished for that reason.
C20_Witness ==
    /\ handshake.state = "done" /\ panic = {}
    /\ hist.io = "ioB" /\ conn.io = "ioB"
    /\ conn.variant = "H2" /\ conn.state = "ok" /\ handles = 0

----------------------------------------------------------------------------
(* Properties of the decomposition, the two polls and WhenReady *)

\* The Connection exists: it was built and neither dropped nor decomposed.
ConnectionAlive == conn.state \in {"driving", "ok", "err"}

\* C13: into_parts on an HTTP/2 driver, whether driving or resolved to success
\* or to an error, can only end in the panic "http2 cannot into_inner" and
\* returns no Parts; no Parts ever exist for an HTTP/2 connection, and the
\* panic is raised for no other driver.
C13_Http2NotDecomposable ==
    /\ (conn.variant = "H2" /\ ConnectionAlive) =>
          /\ ENABLED into_parts
          /\ ~ENABLED (into_parts /\ ~("http2 cannot into_inner" \in panic' /\ parts' = NoParts))
    /\ conn.variant = "H2" => parts = NoParts
    /\ "http2 cannot into_inner" \in panic => conn.variant = "H2" /\ conn.state = "dropped"

\* C13 witness: into_parts was called on an HTTP/2 driver that had resolved to
\* an error, failing request 1: the panic, no Parts.
C13_Witness ==
    /\ conn.variant = "H2" /\ "http2 cannot into_inner" \in panic
    /\ hist.faulted /\ promise[1].val.err = "io"
    /\ parts = NoParts

\* The bytes of the tail are numbered as written: s is the first Len(s) of
\* them, in order.
TailPrefix(s) == \A i \in 1..Len(s) : s[i] = i

\* C14: into_parts on an HTTP/1.1 driver, driving or resolved, returns without
\* a panic the transport that was handed to the handshake and, as read_buf,
\* the driver's read-ahead buffer as it is.  That buffer followed by what is
\* still unread on the transport is, at every moment, the tail the peer
\* wrote: in order, with nothing dropped, repeated or altered; and the Parts,
\* once returned, hold exactly the bytes that were read.
C14_PartsAreTransportAndTail ==
    /\ (conn.variant = "H1" /\ ConnectionAlive) =>
          /\ ENABLED into_parts
          /\ ~ENABLED (into_parts /\ ~(/\ parts' = [io |-> hist.io, read_buf |-> read_buf]
                                       /\ panic' = panic
                                       /\ conn'.state = "parts"))
    /\ conn.variant = "H1" =>
          /\ TailPrefix(read_buf \o wire)
          /\ conn.io = hist.io
    /\ parts # NoParts =>
          /\ conn.variant = "H1" /\ conn.state = "parts"
          /\ parts.io = hist.io /\ parts.io \in Transports
          /\ parts.read_buf = read_buf

\* C14 witness: over the second transport the HTTP/1.1 driver delivered the
\* response to request 1, read the two bytes the peer wrote after it, and was
\* decomposed: the Parts hold that transport and the two bytes in order.
C14_Witness ==
    /\ parts = [io |-> "ioB", read_buf |-> <<1, 2>>]
    /\ hist.io = "ioB"
    /\ promise[1].st = "sent" /\ promise[1].val.ok

\* What a poll of the driver does besides shutting the transport down.
Driven == <<conn.variant, conn.state, conn.inflight, conn.io, wire, read_buf,
            handles, taker, queue, promise, hist, buffered_once, unbound>>

\* C15: on an HTTP/1.1 driver every step of poll_without_shutdown is, but for
\* the shutdown, the step poll makes from the same state on the same event,
\* and conversely; poll_without_shutdown never changes whether the transport
\* was shut down, not even in the step in which the driver completes, while
\* poll has shut it down whenever it completes; on an HTTP/2 driver the two
\* polls are the same step.
C15_PollWithoutShutdown ==
    [][\A ev \in Events, t \in Reqs \cup {None} :
         /\ (conn.variant = "H1" /\ Connection_poll_without_shutdown(ev, t))
            => /\ conn'.shutdown = conn.shutdown
               /\ ~conn'.shutdown
               /\ \E d \in {Driven'} : ENABLED (Connection_poll(ev, t) /\ Driven' = d)
         /\ (conn.variant = "H1" /\ Connection_poll(ev, t))
            => /\ conn'.shutdown = (conn'.state = "ok")
               /\ \E d \in {Driven'} :
                    ENABLED (Connection_poll_without_shutdown(ev, t) /\ Driven' = d)
         /\ conn.variant = "H2"
            => (Connection_poll_without_shutdown(ev, t) <=> Connection_poll(ev, t))]_vars

\* C15 witness: an HTTP/1.1 driver that served request 1 and read the tail
\* completed although only polled so as not to shut down: it resolved to
\* success and the transport is not shut down.
C15_Witness ==
    /\ conn.variant = "H1" /\ conn.state = "ok" /\ ~conn.shutdown
    /\ promise[1].st = "sent" /\ promise[1].val.ok
    /\ read_buf = <<1>>

\* C18: a WhenReady that has not completed holds its handle.  Polled when the
\* channel is not ready it reports not-ready and keeps the handle, changing
\* nothing else, so it can be polled again; polled when the channel is ready
\* it completes with the very handle it held, which is alive and no longer in
\* it; polled after it completed it can only panic "polled after complete".
C18_WhenReadyKeepsOrReturnsHandle ==
    /\ (when_ready.made /\ when_ready.out \in {"none", "NotReady"})
          => when_ready.tx \in 1..handles
    /\ (when_ready.made /\ when_ready.tx # None /\ SendRequest_poll_ready = "NotReady") =>
          /\ ENABLED WhenReady_poll
          /\ ~ENABLED (WhenReady_poll /\ ~(/\ when_ready'.out = "NotReady"
                                           /\ when_ready'.tx = when_ready.tx
                                           /\ when_ready'.got = None
                                           /\ handles' = handles /\ panic' = panic))
    /\ (when_ready.made /\ when_ready.tx # None /\ SendRequest_poll_ready = "Ready") =>
          /\ ENABLED WhenReady_poll
          /\ ~ENABLED (WhenReady_poll /\ ~(/\ when_ready'.out = "Ready"
                                           /\ when_ready'.got = when_ready.tx
                                           /\ when_ready'.tx = None
                                           /\ handles' = handles /\ panic' = panic))
    /\ when_ready.out = "Ready" =>
          /\ when_ready.tx = None /\ when_ready.got \in Handles
          /\ ENABLED WhenReady_poll
          /\ ~ENABLED (WhenReady_poll /\ ~(/\ "polled after complete" \in panic'
                                           /\ when_ready' = when_ready))
    /\ "polled after complete" \in panic => (when_ready.made /\ when_ready.tx = None)

\* C18 witness: the WhenReady was polled at least twice while the channel was
\* not ready, then completed with handle 1, through which request 1 was then
\* sent and accepted; polled once more, it panicked.
C18_Witness ==
    /\ when_ready.out = "Ready" /\ when_ready.got = 1 /\ when_ready.n = 2
    /\ sent[1].api = "send_request" /\ Accepted(1)
    /\ "polled after complete" \in panic

\* C19: when poll_ready fails during a poll of the WhenReady (the channel is
\* closed), the poll returns the error, the handle is not put back but
\* dropped, and the WhenReady has completed: every later poll is the panic
\* "polled after complete", never a second error and never not-ready.
C19_WhenReadyErrorCompletes ==
    /\ (when_ready.made /\ when_ready.tx # None /\ SendRequest_poll_ready = "Err") =>
          /\ SendRequest_is_closed
          /\ ENABLED WhenReady_poll
          /\ ~ENABLED (WhenReady_poll /\ ~(/\ when_ready'.out = "Err"
                                           /\ when_ready'.tx = None
                                           /\ when_ready'.got = None
                                           /\ handles' = handles - 1 /\ panic' = panic))
    /\ when_ready.out = "Err" =>
          /\ when_ready.tx = None /\ when_ready.got = None
          /\ handles = 0
          /\ ENABLED WhenReady_poll
          /\ ~ENABLED (WhenReady_poll /\ ~(/\ "polled after complete" \in panic'
                                           /\ when_ready' = when_ready
                                           /\ handles' = handles))

\* C19 witness: the WhenReady, not ready at first, was polled after the driver
\* had failed: it returned the error and dropped the handle, and the poll
\* made after that panicked.
C19_Witness ==
    /\ when_ready.out = "Err" /\ when_ready.n >= 1
    /\ conn.state = "err" /\ handles = 0
    /\ "polled after complete" \in panic

\* C16: once the channel is closed it stays closed, and closing it again (the
\* other end going away too, a send attempted) changes nothing in it; the
\* closing is seen alike by is_closed of either handle, exactly from the
\* moment the driver's end is gone.  With the cloneable handle the channel is
\* closed only by the driver's end going away, which without an event from
\* the peer happens only when every clone is dropped: dropping some of the
\* clones closes nothing and leaves the others able to send.
C16_ChannelClosing ==
    /\ [][Http2_is_closed => (Http2_is_closed' /\ UNCHANGED <<taker, queue, promise>>)]_vars
    /\ [](conn.variant # "none" =>
            /\ SendRequest_is_closed = Http2_is_closed
            /\ Http2_is_closed = (conn.state # "driving"))
    /\ [][(unbound /\ handles' < handles /\ handles' >= 1)
          => /\ Http2_is_closed' = Http2_is_closed
             /\ UNCHANGED <<conn, taker, queue, promise>>]_vars
    /\ []((unbound /\ handles >= 1 /\ ~Http2_is_closed) =>
            /\ Http2_is_ready /\ dispatch_accepts
            /\ ~ENABLED (Connection_poll("none", None) /\ conn'.state # "driving"))
    /\ []((unbound /\ handles = 0 /\ conn.state = "driving"
             /\ conn.inflight = {} /\ queue = <<>>) =>
            ENABLED (Connection_poll("none", None) /\ Http2_is_closed'))

\* C16 witness: request 1 went through the second clone, one of the two
\* clones was dropped, and the channel is open: request 2, sent through the
\* remaining clone, is accepted and waiting, and a further send would be.
C16_Witness ==
    /\ unbound /\ handles = 1 /\ ~Http2_is_closed
    /\ sent[1].h = 2
    /\ sent[2].api = "Http2_send_request_retryable" /\ Unresolved(2)
    /\ dispatch_accepts

====
